---- MODULE Spec2Model ----
(***************************************************************************)
(* The AutoComplete widget of src/src/components/AutoComplete/index.tsx    *)
(* with the useDebounce hook (src/unnamed/part_002) and the Dropdown list  *)
(* (src/unnamed/part_000), as a state machine.                             *)
(*                                                                         *)
(* A string is a sequence of UTF-16 code units, each written as a TLA+     *)
(* string naming the unit.  One step of the machine is one browser event   *)
(* (a change of the input, a click, a timer fire, the unmount) run to      *)
(* completion: the handlers it calls, the render that follows and the      *)
(* effects of that render.                                                 *)
(***************************************************************************)
EXTENDS Integers, Sequences, FiniteSets, TLC

VARIABLES
    data,           \* the data prop (index.tsx:15)
    malformed,      \* the data prop is not an array of strings (it is absent,
                    \* or an item of it is no string); data is then <<>>
    inputValue,     \* useState("") (index.tsx:17)
    filteredData,   \* useState([]) (index.tsx:18)
    loading,        \* useState(false) (index.tsx:19)
    showDropdown,   \* useState(false) (index.tsx:20)
    timers,         \* the browser's pending setTimeout entries: [id, arg]
    timeoutRef,     \* timeoutRef.current of useDebounce (part_002:4), 0 for null
    mounted,        \* whether the component is mounted
    docListeners,   \* registrations of handleOutsideClick on document (index.tsx:85)
    trig,           \* history: <<args>> of the last debounceFilter call not yet
                    \* followed by a timer fire, <<>> when there is none
    calls,          \* history: the debounceFilter calls since the last timer
                    \* fire, counted up to MaxCalls
    last,           \* history: the last event, see Event
    prev,           \* history: the component's state before the last event
    outsideClicked, \* history: a click outside the widget has run
                    \* handleOutsideClick and no change of the input or of
                    \* the query has followed
    hl              \* the last call of highlightMatch: its item, the
                    \* inputValue it read and what it returned

vars == <<data, malformed, inputValue, filteredData, loading, showDropdown,
          timers, timeoutRef, mounted, docListeners, trig, calls, last, prev,
          outsideClicked, hl>>

----------------------------------------------------------------------------
(* Bounds of the model *)

\* the longest string the user types
MaxQueryLen == 2

\* the longest string the user types in the specification with fairness
MaxLiveQueryLen == 1

\* the history counter calls stops counting here ("MaxCalls or more")
MaxCalls == 3

\* the longest item highlightMatch is called with
MaxItemLen == 3

\* the code units the user can type: the two cases of one letter and a
\* character that is special in a regular expression
Chars == {"a", "A", "."}

RECURSIVE StringsUpTo(_)
StringsUpTo(n) ==
    IF n = 0 THEN {<<>>}
    ELSE LET shorter == StringsUpTo(n - 1)
         IN  shorter \cup {Append(s, c) : s \in shorter, c \in Chars}

\* the values an input change can carry
Values == StringsUpTo(MaxQueryLen)

LiveValues == StringsUpTo(MaxLiveQueryLen)

\* the code units of the items and queries highlightMatch is called with:
\* two letters, one in both cases, and U+0130
HighlightChars == {"a", "A", "b", "Idot"}

RECURSIVE StringsOver(_, _)
StringsOver(chars, n) ==
    IF n = 0 THEN {<<>>}
    ELSE LET shorter == StringsOver(chars, n - 1)
         IN  shorter \cup {Append(s, c) : s \in shorter, c \in chars}

HighlightItems == StringsOver(HighlightChars, MaxItemLen)

HighlightQueries == StringsOver(HighlightChars, MaxQueryLen)

\* the candidate lists a widget is constructed with: empty; mixed case with a
\* regex-special character, an empty candidate and a duplicate; a candidate
\* with U+0130 (capital I with dot above), whose lower case is two code
\* units long
CandidateLists ==
    { <<>>,
      << <<"A", "b">>, <<"b", ".", "a">>, <<>>, <<"a", "B">>, <<"A", "b">> >>,
      << <<"Idot", "a">>, <<"b">>, <<"a", "a">> >> }

\* The record kept in last: the event, its argument (the value of a change or
\* a selection or a timer's callback, the target of a click), the row
\* clicked, the debounceFilter calls a timer fire answers, and whether
\* handleOutsideClick ran during the event.
Event(ev, arg, row, n, dismissed) ==
    [ev |-> ev, arg |-> arg, row |-> row, calls |-> n, dismissed |-> dismissed]

\* hl before any call of highlightMatch
NoHighlight ==
    [item |-> <<>>, query |-> <<>>,
     out |-> [fragment |-> FALSE, prefix |-> <<>>, match |-> <<>>,
              suffix |-> <<>>]]

\* The record kept in prev.
Snapshot ==
    [inputValue |-> inputValue, filteredData |-> filteredData,
     loading |-> loading, showDropdown |-> showDropdown]

----------------------------------------------------------------------------
(* String.prototype.toLowerCase, includes; Array.prototype.filter *)

toLowerCaseUnit(c) ==
    CASE c = "A"    -> <<"a">>
      [] c = "B"    -> <<"b">>
      [] c = "Idot" -> <<"i", "cdot">>
      [] OTHER      -> <<c>>

RECURSIVE toLowerCase(_)
toLowerCase(s) ==
    IF s = <<>> THEN <<>>
    ELSE toLowerCaseUnit(Head(s)) \o toLowerCase(Tail(s))

\* variant: s.includes(t) with neither side lower-cased
includesCaseSensitive(item, value) ==
    \E k \in 0..(Len(item) - Len(value)) :
        SubSeq(item, k + 1, k + Len(value)) = value

\* item.toLowerCase().includes(value.toLowerCase())  (index.tsx:40)
includes(item, value) ==
    LET s == toLowerCase(item)
        t == toLowerCase(value)
    IN  \E k \in 0..(Len(s) - Len(t)) : SubSeq(s, k + 1, k + Len(t)) = t

\* variant: the items kept are the lower-cased ones
RECURSIVE filterLowered(_, _)
filterLowered(list, value) ==
    IF list = <<>> THEN <<>>
    ELSE IF includes(Head(list), value)
         THEN <<toLowerCase(Head(list))>> \o filterLowered(Tail(list), value)
         ELSE filterLowered(Tail(list), value)

\* data.filter((item) => ...)  (index.tsx:39-41)
RECURSIVE filter(_, _)
filter(list, value) ==
    IF list = <<>> THEN <<>>
    ELSE IF includes(Head(list), value)
         THEN <<Head(list)>> \o filter(Tail(list), value)
         ELSE filter(Tail(list), value)

\* s.indexOf(t): the least index (from 0) at which t occurs in s, -1 if none
indexOf(s, t) ==
    LET at == {k \in 0..(Len(s) - Len(t)) : SubSeq(s, k + 1, k + Len(t)) = t}
    IN  IF at = {} THEN -1
        ELSE CHOOSE k \in at : \A m \in at : k <= m

\* s.substring(start, end): both indices clamped to 0..s.length, swapped when
\* start > end
substring(s, start, end) ==
    LET clamp(x) == IF x < 0 THEN 0 ELSE IF x > Len(s) THEN Len(s) ELSE x
        a == clamp(start)
        b == clamp(end)
        lo == IF a <= b THEN a ELSE b
        hi == IF a <= b THEN b ELSE a
    IN  SubSeq(s, lo + 1, hi)

\* highlightMatch (index.tsx:54-68), with inputValue as query: the item
\* itself when the query does not occur (fragment is FALSE, the item is in
\* prefix), else the fragment of the text before the span, the span and the
\* text after it
highlightMatch(item, query) ==
    LET index == indexOf(toLowerCase(item), toLowerCase(query))
    IN  IF index = -1
        THEN [fragment |-> FALSE, prefix |-> item, match |-> <<>>,
              suffix |-> <<>>]
        ELSE [fragment |-> TRUE,
              prefix |-> substring(item, 0, index),
              match  |-> substring(item, index, index + Len(query)),
              suffix |-> substring(item, index + Len(query), Len(item))]

----------------------------------------------------------------------------
(* useDebounce (part_002) *)

\* variant: the pending entry is not cancelled
clearTimeoutNoop(pending, id) == pending

\* clearTimeout(timeoutRef.current): the entry with that id, if still pending,
\* is removed
clearTimeout(pending, id) == {t \in pending : t.id # id}

\* the id setTimeout returns.  The code uses an id only to cancel the entry
\* it names, so any id that no pending entry has and the ref does not hold
\* stands for the browser's fresh one; the least such is taken.
setTimeoutId(pending, ref) ==
    CHOOSE n \in 1..(Cardinality(pending) + 2) :
        /\ n # ref
        /\ \A t \in pending : t.id # n
        /\ \A m \in 1..(n - 1) : m = ref \/ \E t \in pending : t.id = m

\* variant: the new id is not stored in timeoutRef.current
debounceFilterRefNotStored(value) ==
    LET cleared == clearTimeout(timers, timeoutRef)
        id == setTimeoutId(cleared, timeoutRef)
    IN  /\ timers' = cleared \cup {[id |-> id, arg |-> value]}
        /\ timeoutRef' = timeoutRef
        /\ trig' = <<value>>
        /\ calls' = IF calls < MaxCalls THEN calls + 1 ELSE calls

\* variant: the entry scheduled carries the query the callback closed over,
\* not the argument of the call
debounceFilterClosureValue(value) ==
    LET cleared == clearTimeout(timers, timeoutRef)
        id == setTimeoutId(cleared, timeoutRef)
    IN  /\ timers' = cleared \cup {[id |-> id, arg |-> inputValue]}
        /\ timeoutRef' = id
        /\ trig' = <<value>>
        /\ calls' = IF calls < MaxCalls THEN calls + 1 ELSE calls

\* the function useDebounce returns, called with value (part_002:6-11)
debounceFilter(value) ==
    LET cleared == clearTimeout(timers, timeoutRef)
        id == setTimeoutId(cleared, timeoutRef)
    IN  /\ timers' = cleared \cup {[id |-> id, arg |-> value]}
        /\ timeoutRef' = id
        /\ trig' = <<value>>
        /\ calls' = IF calls < MaxCalls THEN calls + 1 ELSE calls

----------------------------------------------------------------------------
(* The effects of a render (index.tsx:72-82) *)

\* variant: setLoading(true) runs after every event, changed value or not
DebounceEffectLoadingAlways(old, new) ==
    IF new # old
    THEN /\ loading' = TRUE
         /\ debounceFilter(new)
    ELSE /\ loading' = TRUE
         /\ UNCHANGED <<timers, timeoutRef, trig, calls>>

\* variant: debounceFilter(inputValue) is missing
DebounceEffectNotScheduled(old, new) ==
    IF new # old
    THEN /\ loading' = TRUE
         /\ UNCHANGED <<timers, timeoutRef, trig, calls>>
    ELSE UNCHANGED <<loading, timers, timeoutRef, trig, calls>>

\* useEffect(..., [inputValue, debounceFilter]): setLoading(true) and
\* debounceFilter(inputValue), run when inputValue changed (index.tsx:72-75)
DebounceEffect(old, new) ==
    IF new # old
    THEN /\ loading' = TRUE
         /\ debounceFilter(new)
    ELSE UNCHANGED <<loading, timers, timeoutRef, trig, calls>>

\* variant: the effect is missing
EmptyQueryEffectSkipped(old, new, results) == results

\* useEffect(..., [inputValue]): the results after the effect, from the
\* results the render had (index.tsx:78-82)
EmptyQueryEffect(old, new, results) ==
    IF new # old /\ new = <<>> THEN <<>> ELSE results

----------------------------------------------------------------------------
(* Handlers *)

\* variant: setFilteredData([]) is missing
handleOutsideClickKeepsResults(results) ==
    [showDropdown |-> FALSE, filteredData |-> results]

\* handleOutsideClick (index.tsx:49-52): showDropdown and filteredData after it
handleOutsideClick(results) ==
    [showDropdown |-> FALSE, filteredData |-> <<>>]

\* dropdownRef.current: the ref is created at index.tsx:23 and attached to
\* no element, so it stays null
dropdownRefCurrent == "null"

\* The detector of useOutsideClick(dropdownRef, handleOutsideClick)
\* (index.tsx:70): TRUE when it calls its callback for a click on target,
\* which it does when the target is not inside the region; with no region
\* attached every click is outside it.  It is torn down on unmount.
detectorInvokes(target) ==
    /\ mounted
    /\ ~(dropdownRefCurrent # "null" /\ target \in {"row", "dropdown"})

\* The listener of index.tsx:85: document calls handleOutsideClick itself on
\* every click, whatever the target, while the registration stands.
documentListenerInvokes(target) == docListeners > 0

\* TRUE when a click on target runs handleOutsideClick
documentClickInvokesHandler(target) ==
    documentListenerInvokes(target) \/ detectorInvokes(target)

\* whether the <Dropdown> region is rendered (index.tsx:101)
DropdownRendered == mounted /\ showDropdown

\* the rows of the rendered list, each with its click handler
\* (part_000:13-24); none when the empty-state row shows (part_000:10-11)
Rows == IF DropdownRendered THEN 1..Len(filteredData) ELSE {}

\* the argument the row's onClick gives handleClick (part_000:20)
rowClickArg(i) == filteredData[i]

\* variant: setInputValue(value) is missing
handleClickValueNotSet(value) == [inputValue |-> inputValue, showDropdown |-> FALSE]

\* handleClick (index.tsx:30-33): inputValue and showDropdown after it
handleClick(value) == [inputValue |-> value, showDropdown |-> FALSE]

\* variant: setLoading(false) sits inside if (value)
callbackLoadingInsideIf(value) ==
    [filteredData |-> IF value # <<>> THEN filter(data, value) ELSE filteredData,
     loading      |-> IF value # <<>> THEN FALSE ELSE loading]

\* data.filter(...) of index.tsx:39 raises a TypeError when data is absent,
\* item.toLowerCase() of index.tsx:40 when an item is no string; both are
\* reached only for a non-empty value (index.tsx:38)
throws(value) == malformed /\ value # <<>>

\* variant: the if (value) guard is missing
callbackNoGuard(value) ==
    IF throws(value)
    THEN [filteredData |-> filteredData, loading |-> loading]
    ELSE [filteredData |-> filter(data, value), loading |-> FALSE]

\* the callback given to useDebounce (index.tsx:37-45): the results and the
\* loading flag after it; an exception leaves both as they were
callback(value) ==
    IF throws(value)
    THEN [filteredData |-> filteredData, loading |-> loading]
    ELSE [filteredData |-> IF value # <<>> THEN filter(data, value)
                           ELSE filteredData,
          loading      |-> FALSE]

----------------------------------------------------------------------------
(* The state after construction: the first render and its effects.  The     *)
(* debounce effect has run (loading is set, a pass for "" is scheduled),    *)
(* the empty-query effect has set the results to [], the document listener  *)
(* is registered.                                                          *)

Construct(list, bad) ==
    /\ data = list
    /\ malformed = bad
    /\ inputValue = <<>>
    /\ filteredData = <<>>
    /\ loading = TRUE
    /\ showDropdown = FALSE
    /\ timers = {[id |-> 1, arg |-> <<>>]}
    /\ timeoutRef = 1
    /\ mounted = TRUE
    /\ docListeners = 1
    /\ trig = << <<>> >>
    /\ calls = 1
    /\ last = Event("mount", <<>>, 0, 0, FALSE)
    /\ prev = [inputValue |-> <<>>, filteredData |-> <<>>, loading |-> FALSE,
               showDropdown |-> FALSE]
    /\ outsideClicked = FALSE
    /\ hl = NoHighlight

\* the widget constructed with an array of strings, as AutoCompleteProps
\* types the prop
Init == \E list \in CandidateLists : Construct(list, FALSE)

\* the widget constructed by a caller the types do not bind: also with a
\* data prop that is absent or malformed
UntypedInit == Init \/ Construct(<<>>, TRUE)

----------------------------------------------------------------------------
(* Events *)

\* The input's change event: Input calls onChange(e.target.value)
\* (part_001:24-26), which is handleChange (index.tsx:25-28, 96); then the
\* render and its effects.  React delivers the change event of a controlled
\* input only for a value that differs from the one it rendered.
HandleChange(value) ==
    /\ mounted
    /\ value # inputValue
    /\ inputValue' = value
    /\ showDropdown' = TRUE
    /\ DebounceEffect(inputValue, value)
    /\ filteredData' = EmptyQueryEffect(inputValue, value, filteredData)
    /\ last' = Event("change", value, 0, 0, FALSE)
    /\ prev' = Snapshot
    /\ outsideClicked' = FALSE
    /\ UNCHANGED <<data, malformed, hl, mounted, docListeners>>

\* A click on row i of the list: the row's onClick calls handleClick
\* (part_000:20), the click then reaches the document's listeners; then the
\* render and its effects.
SelectItem(i) ==
    /\ i \in Rows
    /\ LET value == rowClickArg(i)
           clicked == handleClick(value)
           after == IF documentClickInvokesHandler("row")
                    THEN handleOutsideClick(filteredData)
                    ELSE [showDropdown |-> clicked.showDropdown,
                          filteredData |-> filteredData]
       IN  /\ inputValue' = clicked.inputValue
           /\ showDropdown' = after.showDropdown
           /\ DebounceEffect(inputValue, clicked.inputValue)
           /\ filteredData' = EmptyQueryEffect(inputValue, clicked.inputValue,
                                               after.filteredData)
           /\ last' = Event("select", value, i, 0,
                             documentClickInvokesHandler("row"))
    /\ prev' = Snapshot
    /\ outsideClicked' = FALSE
    /\ UNCHANGED <<data, malformed, hl, mounted, docListeners>>

\* A click that selects nothing: outside the widget, on the input, or inside
\* the dropdown off any row's handler (the empty-state row).
ClickTargets == {"outside", "input", "dropdown"}

DocumentClick(target) ==
    /\ target = "dropdown" => (DropdownRendered /\ filteredData = <<>>)
    /\ IF documentClickInvokesHandler(target)
       THEN LET after == handleOutsideClick(filteredData)
            IN  /\ showDropdown' = after.showDropdown
                /\ filteredData' = after.filteredData
       ELSE UNCHANGED <<showDropdown, filteredData>>
    /\ last' = Event("click", <<target>>, 0, 0,
                      documentClickInvokesHandler(target))
    /\ prev' = Snapshot
    /\ outsideClicked' =
           IF target = "outside" /\ documentClickInvokesHandler(target)
           THEN TRUE ELSE outsideClicked
    /\ UNCHANGED <<data, malformed, hl, inputValue, loading, timers,
                   timeoutRef, mounted, docListeners, trig, calls>>

\* A pending timer fires and runs callback(...args) (part_002:8-10).  The
\* setters of an unmounted component change nothing.
TimerFire ==
    \E t \in timers :
        /\ timers' = timers \ {t}
        /\ trig' = <<>>
        /\ calls' = 0
        /\ IF mounted
           THEN LET after == callback(t.arg)
                IN  /\ filteredData' = after.filteredData
                    /\ loading' = after.loading
           ELSE UNCHANGED <<filteredData, loading>>
        /\ last' = Event("fire", t.arg, 0, calls, FALSE)
        /\ prev' = Snapshot
        /\ UNCHANGED <<data, malformed, hl, inputValue, showDropdown,
                       timeoutRef, mounted, docListeners, outsideClicked>>

\* variant: the effect returns no cleanup
documentClickEffectCleanupMissing(n) == n

\* the cleanup of the document click effect (index.tsx:86-88):
\* removeEventListener with the function the effect registered
documentClickEffectCleanup(n) == n - 1

\* The component unmounts: the cleanup of index.tsx:86-88 removes the
\* document listener; no cleanup clears the timer.  The effect has no
\* dependencies (index.tsx:89), so no render before this one has run it or
\* its cleanup again.
Unmount ==
    /\ mounted
    /\ mounted' = FALSE
    /\ docListeners' = documentClickEffectCleanup(docListeners)
    /\ last' = Event("unmount", <<>>, 0, 0, FALSE)
    /\ prev' = Snapshot
    /\ UNCHANGED <<data, malformed, hl, inputValue, filteredData, loading,
                   showDropdown, timers, timeoutRef, trig, calls,
                   outsideClicked>>

NextWith(typed) ==
    \/ \E value \in typed : HandleChange(value)
    \/ \E i \in 1..Len(filteredData) : SelectItem(i)
    \/ \E target \in ClickTargets : DocumentClick(target)
    \/ TimerFire
    \/ Unmount

Next == NextWith(Values)

Spec == Init /\ [][Next]_vars

\* The same machine for a caller the types do not bind.
UntypedSpec == UntypedInit /\ [][Next]_vars

\* The render of one row: highlightMatch(item) reads inputValue
\* (part_000:22, index.tsx:55).  Item and query are drawn freely; the
\* function keeps no state, so one call is taken per behaviour.
Highlight(item, query) ==
    /\ hl = NoHighlight
    /\ hl' = [item |-> item, query |-> query, out |-> highlightMatch(item, query)]
    /\ UNCHANGED <<data, malformed, inputValue, filteredData, loading,
                   showDropdown, timers, timeoutRef, mounted, docListeners,
                   trig, calls, last, prev, outsideClicked>>

HighlightNext ==
    \E item \in HighlightItems : \E query \in HighlightQueries :
        Highlight(item, query)

HighlightSpec == Init /\ [][HighlightNext]_vars

\* The same machine with shorter typed values, and with the browser's
\* guarantee that a timer which stays scheduled fires: the event loop runs
\* every timer that is not cleared.
NextLive == NextWith(LiveValues)

FairSpec == Init /\ [][NextLive]_vars /\ WF_vars(TimerFire)

----------------------------------------------------------------------------
(* Claims *)

\* candidate c contains value as a literal run of code units, case ignored
CIContains(c, value) ==
    LET lc == toLowerCase(c)
        lv == toLowerCase(value)
    IN  \E k \in 0..(Len(lc) - Len(lv)) :
            \A j \in 1..Len(lv) : lc[k + j] = lv[j]

C1_Match(c) == CIContains(c, last.arg)

\* C1: right after a filter pass fires with a non-empty value v, the results
\* are the candidates that contain v case-insensitively as a literal
\* substring, all of them and no others, in the order of the candidate list.
C1_FilterPassExact ==
    (mounted /\ last.ev = "fire" /\ last.arg # <<>>)
        => filteredData = SelectSeq(data, C1_Match)

\* a pass has kept some candidates and dropped others, and kept one that
\* matches only when case is ignored
C1_Witness ==
    /\ mounted /\ last.ev = "fire" /\ last.arg # <<>>
    /\ filteredData # <<>>
    /\ Len(filteredData) < Len(data)
    /\ \E i \in 1..Len(filteredData) :
           ~includesCaseSensitive(filteredData[i], last.arg)

\* C2: a filter pass that runs has the current query as its argument, and no
\* pass for a superseded value is pending, so none can run or write results.
C2_PassForCurrentQuery ==
    /\ \A t \in timers : t.arg = inputValue
    /\ last.ev = "fire" => last.arg = inputValue

\* a pass ran for the last of several values submitted since the pass before
C2_Witness ==
    /\ mounted /\ last.ev = "fire" /\ last.calls >= 2
    /\ last.arg # <<>> /\ last.arg = inputValue
    /\ filteredData # <<>>

\* C3: after N >= 1 debounceFilter calls with no timer fire in between,
\* exactly one invocation is pending and it carries the arguments of the last
\* call; with no call since the last fire none is pending; at most one is
\* pending at any time.
C3_DebounceCoalescing ==
    /\ Cardinality(timers) <= 1
    /\ calls >= 1 => \E t \in timers : timers = {t} /\ <<t.arg>> = trig
    /\ calls = 0 => (timers = {} /\ trig = <<>>)
    /\ last.ev = "fire" => (timers = {} /\ last.calls >= 1)

\* one invocation has answered three or more calls
C3_Witness ==
    /\ last.ev = "fire" /\ last.calls >= 3
    /\ timers = {}
    /\ last.arg # <<>>

\* C4: whenever the query is the empty string the results are empty.
C4_EmptyQueryEmptyResults ==
    inputValue = <<>> => filteredData = <<>>

\* the query went back to the empty string while results were held
C4_Witness ==
    /\ mounted /\ last.ev = "change" /\ inputValue = <<>>
    /\ prev.filteredData # <<>>
    /\ filteredData = <<>>

\* C5: whenever the query is the empty string the dropdown region is not
\* rendered.
C5_NoDropdownOnEmptyQuery ==
    (mounted /\ inputValue = <<>>) => ~DropdownRendered

\* C6: a click outside the widget hides the dropdown, empties the results and
\* leaves the query as it was.
C6_OutsideClickDismisses ==
    (mounted /\ last.ev = "click" /\ last.arg = <<"outside">>)
        => /\ ~showDropdown
           /\ filteredData = <<>>
           /\ inputValue = prev.inputValue

\* an outside click found the dropdown open with results in it
C6_Witness ==
    /\ mounted /\ last.ev = "click" /\ last.arg = <<"outside">>
    /\ prev.showDropdown /\ prev.filteredData # <<>>
    /\ ~showDropdown /\ filteredData = <<>> /\ inputValue # <<>>

\* C7: a click inside the dropdown (on a row or on the empty-state row) does
\* not run the outside-click handler and does not clear the results.
C7_InsideClickNotOutside ==
    (mounted /\ (last.ev = "select" \/
                 (last.ev = "click" /\ last.arg = <<"dropdown">>)))
        => (~last.dismissed /\ filteredData = prev.filteredData)

\* C8: a click on the row of item v calls the selection handler with v; after
\* it the query is v and the dropdown is hidden.
C8_SelectSetsQuery ==
    (mounted /\ last.ev = "select")
        => /\ last.row \in 1..Len(prev.filteredData)
           /\ last.arg = prev.filteredData[last.row]
           /\ inputValue = last.arg
           /\ ~showDropdown

\* a row other than the first was clicked and the query changed
C8_Witness ==
    /\ mounted /\ last.ev = "select" /\ last.row >= 2
    /\ inputValue # prev.inputValue
    /\ inputValue = prev.filteredData[last.row]

\* C9: loading is true only while a pass for the current query is pending;
\* when loading is false no pass is pending, so none can run or set it again,
\* and a pending pass is never one for a superseded value.
C9_LoadingOnlyForLatest ==
    mounted => /\ loading => \E t \in timers : t.arg = inputValue
               /\ ~loading => timers = {}
               /\ \A t \in timers : t.arg = inputValue

\* the pass for the last of several values has fired and loading is off
C9_Witness ==
    /\ mounted /\ ~loading /\ timers = {}
    /\ last.ev = "fire" /\ last.calls >= 2 /\ last.arg = inputValue

\* C10: once loading is set it becomes false again, given that a pending
\* timer fires, for an empty and a non-empty value alike.
C10_LoadingSettles ==
    (mounted /\ loading) ~> (~loading \/ ~mounted)

\* the pass scheduled by a change back to the empty string has fired
C10_Witness ==
    /\ mounted /\ ~loading
    /\ last.ev = "fire" /\ last.arg = <<>> /\ last.calls >= 2
    /\ showDropdown

\* C11: after the unmount no timer is pending (a pending one was cancelled)
\* and no filter pass runs.
C11_TimerCancelledOnTeardown ==
    ~mounted => (timers = {} /\ last.ev # "fire")

\* C12: the widget holds exactly one registration of its document click
\* listener while mounted and none after the unmount, whatever renders took
\* place; a document click after the unmount does not run its handler.
C12_ListenerOncePerMount ==
    /\ mounted => docListeners = 1
    /\ ~mounted => docListeners = 0
    /\ (~mounted /\ last.ev = "click")
           => /\ ~last.dismissed
              /\ showDropdown = prev.showDropdown
              /\ filteredData = prev.filteredData

\* a click outside after the widget was unmounted with its dropdown open
C12_Witness ==
    /\ ~mounted /\ docListeners = 0
    /\ last.ev = "click" /\ last.arg = <<"outside">>
    /\ showDropdown /\ filteredData # <<>>

\* C13: every element of the results is an element of the candidate list.
C13_ResultsFromCandidates ==
    \A i \in 1..Len(filteredData) :
        \E j \in 1..Len(data) : filteredData[i] = data[j]

\* results are held, one of them a candidate with an upper-case letter
C13_Witness ==
    /\ mounted /\ filteredData # <<>>
    /\ \E i \in 1..Len(filteredData) :
           toLowerCase(filteredData[i]) # filteredData[i]

\* the places (from 0) where query occurs in item, case ignored: the windows
\* of item of the query's length that are the query up to case
C14_Occurrences(item, query) ==
    {k \in 0..(Len(item) - Len(query)) :
        toLowerCase(SubSeq(item, k + 1, k + Len(query))) = toLowerCase(query)}

\* C14: for a non-empty query that occurs in the candidate, case ignored,
\* highlightMatch gives the text before the first occurrence, the
\* candidate's own characters at it, of the query's length, and the rest;
\* the three together are the candidate.
C14_HighlightFirstOccurrence ==
    (hl # NoHighlight /\ hl.query # <<>>
        /\ C14_Occurrences(hl.item, hl.query) # {})
    => LET at == C14_Occurrences(hl.item, hl.query)
           k == CHOOSE x \in at : \A y \in at : x <= y
           n == Len(hl.query)
       IN  /\ hl.out.fragment
           /\ hl.out.prefix = SubSeq(hl.item, 1, k)
           /\ hl.out.match = SubSeq(hl.item, k + 1, k + n)
           /\ hl.out.suffix = SubSeq(hl.item, k + n + 1, Len(hl.item))
           /\ hl.out.prefix \o hl.out.match \o hl.out.suffix = hl.item

\* C15: with an absent or malformed candidate list every filter pass ends
\* without an error, with empty results and loading false.
C15_MalformedListAsEmpty ==
    (malformed /\ mounted /\ last.ev = "fire")
        => (~throws(last.arg) /\ filteredData = <<>> /\ ~loading)

C17_Match(c) == CIContains(c, inputValue)

\* C17: when loading is false and the dropdown is visible, the results are
\* the candidates that contain the current query, and are empty for the
\* empty query.
C17_Settled ==
    (mounted /\ ~loading /\ showDropdown)
        => filteredData = IF inputValue = <<>> THEN <<>>
                          ELSE SelectSeq(data, C17_Match)

\* a settled, visible list that holds some candidates and not others
C17_Witness ==
    /\ mounted /\ ~loading /\ showDropdown
    /\ filteredData # <<>> /\ Len(filteredData) < Len(data)
    /\ last.calls >= 2

\* C18: the click that selects an item leaves the results as they were and
\* changes nothing but the query and the dropdown-visible flag.
C18_SelectKeepsResults ==
    (mounted /\ last.ev = "select")
        => (filteredData = prev.filteredData /\ loading = prev.loading)

\* C19 as stated: after an outside click, and until the input changes, the
\* dropdown is hidden and the results are empty.
C19_DismissedStaysEmpty ==
    (mounted /\ outsideClicked) => (~showDropdown /\ filteredData = <<>>)

\* C19 as amended: after an outside click, and until the input changes, the
\* dropdown is hidden; the results are empty while a filter pass is pending,
\* and results that are held are those of a pass that has fired since: the
\* candidates matching the current query, with loading false.
C19_DismissedUntilPassFires ==
    (mounted /\ outsideClicked)
        => /\ ~showDropdown
           /\ timers # {} => filteredData = <<>>
           /\ filteredData # <<>>
                  => (filteredData = filter(data, inputValue)
                      /\ ~loading /\ timers = {})

\* the pass that was pending at the outside click has fired and written
C19_Witness ==
    /\ mounted /\ outsideClicked /\ ~showDropdown
    /\ last.ev = "fire" /\ prev.filteredData = <<>>
    /\ filteredData # <<>>

\* C20: before any user event the widget is idle: empty query, dropdown
\* hidden, no results, not loading, no filter pass pending.
C20_InitialIdle ==
    last.ev = "mount"
        => /\ inputValue = <<>> /\ ~showDropdown /\ filteredData = <<>>
           /\ ~loading /\ timers = {}

\* C21: an input change to a non-empty value leaves the results as they
\* were; while loading is true the results change only when the pass for
\* the current query fires, by a click outside the widget, or when the query
\* becomes the empty string.
C21_StaleWhileRevalidate ==
    mounted =>
        /\ (last.ev = "change" /\ last.arg # <<>>)
               => filteredData = prev.filteredData
        /\ (prev.loading /\ filteredData # prev.filteredData)
               => \/ last.ev = "fire" /\ last.arg = inputValue
                  \/ last.ev = "click" /\ last.arg = <<"outside">>
                  \/ last.ev \in {"change", "select"} /\ inputValue = <<>>

\* C22: for every candidate, when the query is the empty string or does not
\* occur in the candidate, case ignored, highlightMatch gives the whole
\* candidate as the text before the span, an empty span and no text after it.
C22_HighlightNoEmphasis ==
    (hl # NoHighlight
        /\ (hl.query = <<>> \/ C14_Occurrences(hl.item, hl.query) = {}))
    => /\ hl.out.prefix = hl.item
       /\ hl.out.match = <<>>
       /\ hl.out.suffix = <<>>

\* a step that changes the query, by typing or by a selection, sets loading
\* and leaves exactly one pass pending, a new one for the new query
C23_Rescheduled ==
    (mounted /\ inputValue' # inputValue)
        => /\ last'.ev \in {"change", "select"}
           /\ loading'
           /\ \E t \in timers' :
                  timers' = {t} /\ t.arg = inputValue' /\ t \notin timers

\* a step in which the pass fires that a selection of a new query scheduled
C23_SelectedPassFires ==
    /\ mounted /\ last.ev = "select" /\ inputValue # prev.inputValue
    /\ last'.ev = "fire"

\* C23: every change of the query, by typing or by selecting an
\* item, sets loading and replaces the pending pass by one for the new
\* value; the pass that the selection of an item v other than the query
\* schedules runs with v and sets the results to the candidates matching v
\* while the dropdown is hidden.
C23_QueryChangeReschedules ==
    [][ /\ C23_Rescheduled
        /\ C23_SelectedPassFires
               => /\ last'.arg = inputValue
                  /\ ~showDropdown'
                  /\ filteredData' = filter(data, inputValue) ]_vars

\* the pass for a selected item has fired and written results while the
\* dropdown is hidden: the query holds a code unit that cannot be typed, so
\* it was set by a selection
C23_Witness ==
    /\ mounted /\ last.ev = "fire" /\ last.arg = inputValue
    /\ \E i \in 1..Len(inputValue) : inputValue[i] \notin Chars
    /\ ~showDropdown /\ ~loading
    /\ prev.filteredData = <<>> /\ filteredData # <<>>

\* C24: a filter pass that fires leaves the query and the dropdown-visible
\* flag as they were, so a hidden dropdown stays hidden; with the empty
\* string as its argument it leaves the results as they were, too.
C24_FireFrame ==
    (mounted /\ last.ev = "fire")
        => /\ inputValue = prev.inputValue
           /\ showDropdown = prev.showDropdown
           /\ last.arg = <<>> => filteredData = prev.filteredData

\* the pass for the empty string has fired after an outside click hid the
\* dropdown of a widget that has candidates
C24_Witness ==
    /\ mounted /\ last.ev = "fire" /\ last.arg = <<>>
    /\ outsideClicked /\ ~showDropdown /\ ~prev.showDropdown
    /\ prev.loading /\ ~loading
    /\ data # <<>>

====
